---- MODULE Spec2Model ----
(***************************************************************************)
(* libqtile/lazy.py: LazyCall (the lazily evaluated command graph call,    *)
(* its when() rule attachment and its check() activation decision) and     *)
(* LazyCommandObject.execute, which builds LazyCalls.                       *)
(*                                                                         *)
(* Objects live in two heaps: `heap` holds the LazyCall objects in the     *)
(* order execute() built them and `dicts` holds the defaultdict rule       *)
(* tables; a LazyCall refers to its table by its index in `dicts`.         *)
(***************************************************************************)
EXTENDS Naturals, Sequences, FiniteSets, TLC

VARIABLES heap, dicts, log, ret

vars == <<heap, dicts, log, ret>>

----------------------------------------------------------------------------
(* Bounds of the exploration *)

\* number of LazyCall objects execute() may build
MaxCalls == 2
\* number of when() calls made in a run, over all objects
MaxWhen == 2

----------------------------------------------------------------------------
(* Input domains *)

\* names q.current_layout.name can take
LayoutNames == {"columns", "monadtall", "max"}
\* names given as when(layout=...)
RuleLayouts == {"columns", "monadtall"}
\* q.current_window: None, a tiled window, a floating window
Windows == {"none", "tiled", "floating"}
\* q.current_group.name
Groups == {"a", "b"}
\* the Qtile object handed to check()
Qtiles == [layout : LayoutNames, window : Windows, group : Groups]
\* predicates a configuration passes as filt; "None" is the omitted argument
UserFilters == {"group_a"}
FiltArgs == {"None"} \cup UserFilters
\* (call, args, kwargs) triples handed to execute()
Invocations ==
    { [call |-> "next_layout", args |-> <<>>, kwargs |-> {}],
      [call |-> "spawn", args |-> <<"xterm">>, kwargs |-> {<<"shell", "yes">>}] }

NoQ == [layout |-> "-", window |-> "-", group |-> "-"]
NoInv == [call |-> "-", args |-> <<>>, kwargs |-> {}]
NoOut == [value |-> FALSE, exc |-> "-", invoked |-> <<>>]

----------------------------------------------------------------------------
(* dict and defaultdict(dict) *)

\* {} : a dict without keys
EmptyDict == [k \in {} |-> FALSE]

\* d[k] = v on a dict
SetItem(d, k, v) == [x \in (DOMAIN d) \cup {k} |-> IF x = k THEN v ELSE d[x]]

\* the table after defaultdict.__getitem__(k): a missing key is inserted
\* with the default factory's value, dict()
GetItemTable(d, k) == IF k \in DOMAIN d THEN d ELSE SetItem(d, k, EmptyDict)

\* bool(d) of a dict: non-empty
Truthy(d) == DOMAIN d # {}

----------------------------------------------------------------------------
(* LazyCall *)

\* the rule table a LazyCall refers to
RulesOf(h, d, self) == d[h[self].layout_rules]

\* _default_filter without "no rules means always fire"
DefaultFilterStrict(rules, q) == q.layout \in DOMAIN rules

\* _default_filter that never rejects
DefaultFilterPermissive(rules, q) == TRUE

\* LazyCall._default_filter: not (rules and layout not in rules)
DefaultFilter(rules, q) == ~(Truthy(rules) /\ q.layout \notin DOMAIN rules)

\* calling a stored filter f with q. "default" is the bound method
\* self._default_filter, "always_true" the lambda of when(), and "group_a"
\* the predicate lambda q: q.current_group.name == 'a'
Apply(f, rules, q) ==
    CASE f = "default" -> DefaultFilter(rules, q)
      [] f = "always_true" -> TRUE
      [] f = "group_a" -> q.group = "a"
      [] OTHER -> FALSE

\* the outcome of a return statement: its value, and the filters it invoked
Returned(v, inv) == [value |-> v, exc |-> "", invoked |-> inv]
\* a rule dict without the key that is read
KeyError(inv) == [value |-> FALSE, exc |-> "KeyError", invoked |-> inv]

\* q.current_window and q.current_window.floating
IsFloating(q) == q.window = "floating"

\* rules[cur]["filter"](q) and rules[cur]["when_floating"]: the filter first
LayoutFloatingEager(rules, q) ==
    LET rule == rules[q.layout] IN
    IF "filter" \notin DOMAIN rule \/ "when_floating" \notin DOMAIN rule
    THEN KeyError(<<>>)
    ELSE Returned(Apply(rule["filter"], rules, q) /\ rule["when_floating"],
                  << <<"layout", rule["filter"]>> >>)

\* return rules[cur]["when_floating"] and rules[cur]["filter"](q)
LayoutFloating(rules, q) ==
    LET rule == rules[q.layout] IN
    IF "when_floating" \notin DOMAIN rule THEN KeyError(<<>>)
    ELSE IF ~rule["when_floating"] THEN Returned(FALSE, <<>>)
    ELSE IF "filter" \notin DOMAIN rule THEN KeyError(<<>>)
    ELSE Returned(Apply(rule["filter"], rules, q),
                  << <<"layout", rule["filter"]>> >>)

\* return self._filter(q) for a floating window: the flag is not read
GlobalFloatingUngated(c, rules, q) ==
    Returned(Apply(c.filter, rules, q), << <<"global", c.filter>> >>)

\* return self._when_floating and self._filter(q)
GlobalFloating(c, rules, q) ==
    IF ~c.when_floating THEN Returned(FALSE, <<>>)
    ELSE Returned(Apply(c.filter, rules, q), << <<"global", c.filter>> >>)

\* the rule's when_floating gates a window that is not floating, too
LayoutTiledGated(rules, q) == LayoutFloating(rules, q)

\* return rules[cur]["filter"](q)
LayoutTiled(rules, q) ==
    LET rule == rules[q.layout] IN
    IF "filter" \notin DOMAIN rule THEN KeyError(<<>>)
    ELSE Returned(Apply(rule["filter"], rules, q),
                  << <<"layout", rule["filter"]>> >>)

\* return self._filter(q)
GlobalTiled(c, rules, q) ==
    Returned(Apply(c.filter, rules, q), << <<"global", c.filter>> >>)

\* check that and-s the global filter to a matching per-layout rule
checkGlobalToo(c, rules, q) ==
    IF q.layout \in DOMAIN rules
    THEN LET o == IF IsFloating(q) THEN LayoutFloating(rules, q)
                  ELSE LayoutTiled(rules, q)
         IN  IF o.exc # "" \/ ~o.value THEN o
             ELSE Returned(Apply(c.filter, rules, q),
                           o.invoked \o << <<"global", c.filter>> >>)
    ELSE IF IsFloating(q) THEN GlobalFloating(c, rules, q)
         ELSE GlobalTiled(c, rules, q)

\* LazyCall.check: what check(q) returns on the LazyCall c with table rules
check(c, rules, q) ==
    IF IsFloating(q)
    THEN IF q.layout \in DOMAIN rules
         THEN LayoutFloating(rules, q)
         ELSE GlobalFloating(c, rules, q)
    ELSE IF q.layout \in DOMAIN rules
         THEN LayoutTiled(rules, q)
         ELSE GlobalTiled(c, rules, q)

\* check that indexes the defaultdict before testing membership
CheckRulesIndexFirst(rules, q) == GetItemTable(rules, q.layout)

\* the rule table after check(q): check indexes the defaultdict only under a
\* membership test, which inserts nothing
CheckRules(rules, q) ==
    IF q.layout \in DOMAIN rules THEN GetItemTable(rules, q.layout) ELSE rules

\* filt or (lambda q: True)
LayoutFilt(filt) == IF filt = "None" THEN "always_true" ELSE filt
\* filt or self._default_filter
GlobalFilt(filt) == IF filt = "None" THEN "default" ELSE filt

\* when(layout=...) that keeps a rule the layout already has (setdefault)
WhenLayoutFirstWins(rules, layout, when_floating, filt) ==
    IF layout \in DOMAIN rules THEN rules
    ELSE SetItem(rules, layout,
                 [when_floating |-> when_floating, filter |-> LayoutFilt(filt)])

\* when(layout=layout, ...): the rule table afterwards
WhenLayout(rules, layout, when_floating, filt) ==
    LET t1 == GetItemTable(rules, layout)
        t2 == SetItem(t1, layout, SetItem(t1[layout], "when_floating", when_floating))
        t3 == GetItemTable(t2, layout)
    IN  SetItem(t3, layout, SetItem(t3[layout], "filter", LayoutFilt(filt)))

\* when(layout=None, ...) that combines with the earlier global rule: the
\* flag is and-ed, an omitted filt keeps the filter
WhenGlobalMerge(c, when_floating, filt) ==
    [c EXCEPT !.when_floating = c.when_floating /\ when_floating,
              !.filter = IF filt = "None" THEN c.filter ELSE filt]

\* when(layout=None, ...): the LazyCall afterwards
WhenGlobal(c, when_floating, filt) ==
    [c EXCEPT !.when_floating = when_floating, !.filter = GlobalFilt(filt)]

\* a rule table made once and shared by every LazyCall (a class attribute)
NewRulesShared(d) == 1

\* defaultdict(dict) in __init__: the index of the new rule table
NewRules(d) == Len(d) + 1

\* LazyCall.__init__
LazyCall(inv, d) ==
    [call |-> inv.call, args |-> inv.args, kwargs |-> inv.kwargs,
     layout_rules |-> NewRules(d), when_floating |-> TRUE, filter |-> "default"]

----------------------------------------------------------------------------
(* State machine *)

\* what execute() leaves behind: LazyCall.__init__ builds the object and
\* its rule table, and execute returns the object
Constructed(h, d, inv) ==
    LET c == LazyCall(inv, d) IN
    [heap |-> Append(h, c),
     dicts |-> IF c.layout_rules \in DOMAIN d THEN d ELSE Append(d, EmptyDict),
     ret |-> [op |-> "execute", self |-> Len(h) + 1, inv |-> inv,
              q |-> NoQ, out |-> NoOut]]

\* the module is loaded: lazy = InteractiveCommandClient(LazyCommandObject())
Init ==
    /\ heap = <<>>
    /\ dicts = <<>>
    /\ log = <<>>
    /\ ret = [op |-> "init", self |-> 0, inv |-> NoInv, q |-> NoQ, out |-> NoOut]

\* one LazyCall, as its constructor leaves it
InitCall ==
    \E inv \in Invocations :
        LET s == Constructed(<<>>, <<>>, inv) IN
        /\ heap = s.heap
        /\ dicts = s.dicts
        /\ log = <<>>
        /\ ret = s.ret

\* LazyCommandObject.execute(call, args, kwargs)
Execute(inv) ==
    /\ Len(heap) < MaxCalls
    /\ LET s == Constructed(heap, dicts, inv) IN
       /\ heap' = s.heap
       /\ dicts' = s.dicts
       /\ ret' = s.ret
    /\ UNCHANGED log

\* self.when(layout, when_floating, filt)
When(self, layout, when_floating, filt) ==
    /\ self \in DOMAIN heap
    /\ Len(log) < MaxWhen
    /\ IF layout # "None"
       THEN /\ dicts' = [dicts EXCEPT ![heap[self].layout_rules] =
                            WhenLayout(@, layout, when_floating, filt)]
            /\ heap' = heap
       ELSE /\ heap' = [heap EXCEPT ![self] = WhenGlobal(@, when_floating, filt)]
            /\ dicts' = dicts
    /\ log' = Append(log, [self |-> self, layout |-> layout,
                           when_floating |-> when_floating, filt |-> filt])
    /\ ret' = [op |-> "when", self |-> self, inv |-> NoInv, q |-> NoQ, out |-> NoOut]

\* self.check(q)
Check(self, q) ==
    /\ self \in DOMAIN heap
    /\ dicts' = [dicts EXCEPT ![heap[self].layout_rules] = CheckRules(@, q)]
    /\ ret' = [op |-> "check", self |-> self, inv |-> NoInv, q |-> q,
               out |-> check(heap[self], RulesOf(heap, dicts, self), q)]
    /\ UNCHANGED <<heap, log>>

Next ==
    \/ \E inv \in Invocations : Execute(inv)
    \/ \E self \in 1..MaxCalls, layout \in {"None"} \cup RuleLayouts,
          when_floating \in BOOLEAN, filt \in FiltArgs :
            When(self, layout, when_floating, filt)

\* the life of one LazyCall: rules are attached and the call is checked
NextCall ==
    \/ \E layout \in {"None"} \cup RuleLayouts,
          when_floating \in BOOLEAN, filt \in FiltArgs :
            When(1, layout, when_floating, filt)
    \/ \E q \in Qtiles : Check(1, q)

\* LazyCalls built by execute(), each with its rules and checks
Spec == Init /\ [][Next]_vars

\* one LazyCall from its construction on
SpecCall == InitCall /\ [][NextCall]_vars

----------------------------------------------------------------------------
(* Vocabulary of the properties *)

\* the when() calls made on self, oldest first
LogOf(self) == SelectSeq(log, LAMBDA e : e.self = self)

\* the when() calls made on self that named layout ("None": omitted it)
CallsFor(self, layout) == SelectSeq(log, LAMBDA e : e.self = self /\ e.layout = layout)

HasCall(self, layout) == CallsFor(self, layout) # <<>>

\* the last of them
LastCall(self, layout) == CallsFor(self, layout)[Len(CallsFor(self, layout))]

\* what self.check(q) returns in the current state
CheckNow(self, q) == check(heap[self], RulesOf(heap, dicts, self), q)

\* what self.check(q) returns in the next state
CheckNext(self, q) == check(heap'[self], RulesOf(heap', dicts', self), q)

\* check returned v, without raising
Gives(out, v) == out.exc = "" /\ out.value = v

\* the per-layout rules when() can store
Rules == [when_floating : BOOLEAN, filter : {"always_true"} \cup UserFilters]

\* the global rules when() can store
GlobalRules == [when_floating : BOOLEAN, filter : {"default"} \cup UserFilters]

\* a LazyCall and its rule table after the when() calls es, made in order
RECURSIVE Replay(_, _)
Replay(st, es) ==
    IF es = <<>> THEN st
    ELSE LET e == Head(es) IN
         Replay(IF e.layout # "None"
                THEN [c |-> st.c,
                      rules |-> WhenLayout(st.rules, e.layout, e.when_floating, e.filt)]
                ELSE [c |-> WhenGlobal(st.c, e.when_floating, e.filt),
                      rules |-> st.rules],
                Tail(es))

\* self as its constructor left it
Fresh(self) ==
    [c |-> [heap[self] EXCEPT !.when_floating = TRUE, !.filter = "default"],
     rules |-> EmptyDict]

\* the i-th call of es is followed by a later call of the same scope
Superseded(es, i) == \E j \in (i + 1)..Len(es) : es[j].layout = es[i].layout

\* es without the superseded calls that omitted layout (global = TRUE) or
\* that named one (global = FALSE)
RECURSIVE LastOnly(_, _, _)
LastOnly(es, i, global) ==
    IF i > Len(es) THEN <<>>
    ELSE IF Superseded(es, i) /\ ((es[i].layout = "None") = global)
         THEN LastOnly(es, i + 1, global)
         ELSE <<es[i]>> \o LastOnly(es, i + 1, global)

\* the rule tables when() can build
Tables == UNION { [D -> Rules] : D \in SUBSET RuleLayouts }

----------------------------------------------------------------------------
(* C1 *)

\* C1: a LazyCall on which when() was never called fires in every state:
\* check returns True for every layout name and for an absent, a tiled and
\* a floating current window.
C1_NoRulesAlwaysFire ==
    \A self \in DOMAIN heap :
        LogOf(self) = <<>> =>
            /\ \A q \in Qtiles : Gives(CheckNow(self, q), TRUE)
            /\ (ret.op = "check" /\ ret.self = self) => Gives(ret.out, TRUE)

C1_Witness ==
    /\ ret.op = "check"
    /\ LogOf(ret.self) = <<>>
    /\ ret.q.window = "floating"
    /\ Gives(ret.out, TRUE)

----------------------------------------------------------------------------
(* C2 *)

\* C2: with at least one per-layout rule attached, a current layout that has
\* no rule and a current window that is absent or not floating, check
\* returns False when the global filter is the default one, and g(q) when
\* the global filter was set by when(filt=g).
C2_UnmatchedLayout ==
    \A self \in DOMAIN heap : \A q \in Qtiles :
        ( /\ \E l \in RuleLayouts : HasCall(self, l)
          /\ ~HasCall(self, q.layout)
          /\ q.window # "floating" ) =>
            IF HasCall(self, "None") /\ LastCall(self, "None").filt # "None"
            THEN Gives(CheckNow(self, q),
                       Apply(LastCall(self, "None").filt, EmptyDict, q))
            ELSE Gives(CheckNow(self, q), FALSE)

C2_Witness ==
    /\ ret.op = "check"
    /\ \E l \in RuleLayouts : HasCall(ret.self, l)
    /\ ~HasCall(ret.self, ret.q.layout)
    /\ ret.q.window = "tiled"
    /\ HasCall(ret.self, "None")
    /\ LastCall(ret.self, "None").filt = "group_a"
    /\ Gives(ret.out, TRUE)

----------------------------------------------------------------------------
(* C3 *)

\* C3: when the current layout has a rule {when_floating = wf, filter = f}
\* and the current window is floating, check returns wf and f(q); with wf
\* false it returns False and does not invoke f.
C3_FloatingLayoutRule ==
    \A self \in DOMAIN heap : \A q \in Qtiles :
        (HasCall(self, q.layout) /\ q.window = "floating") =>
            LET e == LastCall(self, q.layout)
                f == LayoutFilt(e.filt)
                out == CheckNow(self, q)
            IN  /\ Gives(out, e.when_floating /\ Apply(f, EmptyDict, q))
                /\ ~e.when_floating => out.invoked = <<>>
                /\ e.when_floating => out.invoked = << <<"layout", f>> >>

C3_Witness ==
    /\ ret.op = "check"
    /\ ret.q.window = "floating"
    /\ HasCall(ret.self, ret.q.layout)
    /\ ~LastCall(ret.self, ret.q.layout).when_floating
    /\ LastCall(ret.self, ret.q.layout).filt = "group_a"
    /\ ret.q.group = "a"
    /\ Gives(ret.out, FALSE)
    /\ ret.out.invoked = <<>>

----------------------------------------------------------------------------
(* C4 *)

\* C4: when the current layout has a rule {when_floating = wf, filter = f}
\* and the current window is absent or not floating, check returns f(q),
\* whatever wf is.
C4_TiledLayoutRule ==
    \A self \in DOMAIN heap : \A q \in Qtiles :
        (HasCall(self, q.layout) /\ q.window # "floating") =>
            LET e == LastCall(self, q.layout)
                f == LayoutFilt(e.filt)
            IN  Gives(CheckNow(self, q), Apply(f, EmptyDict, q))

C4_Witness ==
    /\ ret.op = "check"
    /\ ret.q.window = "none"
    /\ HasCall(ret.self, ret.q.layout)
    /\ ~LastCall(ret.self, ret.q.layout).when_floating
    /\ Gives(ret.out, TRUE)

----------------------------------------------------------------------------
(* C5 *)

\* C5 as stated: after when(when_floating=False) as the last call without a
\* layout, check returns False in every state whose current window is
\* floating, per-layout rules or not.
C5_NeverFloating ==
    \A self \in DOMAIN heap : \A q \in Qtiles :
        ( /\ HasCall(self, "None")
          /\ ~LastCall(self, "None").when_floating
          /\ q.window = "floating" ) =>
            Gives(CheckNow(self, q), FALSE)

\* C5 amended: after when(when_floating=False) as the last call without a
\* layout, check returns False in every state whose current window is
\* floating and whose current layout name has no per-layout rule.
C5_NeverFloatingUnruled ==
    \A self \in DOMAIN heap : \A q \in Qtiles :
        ( /\ HasCall(self, "None")
          /\ ~LastCall(self, "None").when_floating
          /\ q.window = "floating"
          /\ ~HasCall(self, q.layout) ) =>
            /\ Gives(CheckNow(self, q), FALSE)
            /\ (ret.op = "check" /\ ret.self = self /\ ret.q = q) =>
                    Gives(ret.out, FALSE)

C5_Witness ==
    /\ ret.op = "check"
    /\ HasCall(ret.self, "None")
    /\ ~LastCall(ret.self, "None").when_floating
    /\ LastCall(ret.self, "None").filt = "group_a"
    /\ \E l \in RuleLayouts : HasCall(ret.self, l)
    /\ ~HasCall(ret.self, ret.q.layout)
    /\ ret.q.window = "floating"
    /\ ret.q.group = "a"
    /\ Gives(ret.out, FALSE)

----------------------------------------------------------------------------
(* C6 *)

\* C6: one rule governs each check. If the current layout has a per-layout
\* rule, the result is the same for every global when_floating flag and
\* every global filter and for every content of the other layouts' rules,
\* and the global filter is not invoked; otherwise the result is the same
\* for every content of the per-layout rules, and no per-layout filter is
\* invoked. Floating or not.
C6_OneRuleGoverns ==
    \A self \in DOMAIN heap : \A q \in Qtiles :
        LET c == heap[self]
            rules == RulesOf(heap, dicts, self)
            out == CheckNow(self, q)
        IN  IF q.layout \in DOMAIN rules
            THEN /\ \A g \in GlobalRules :
                        check([c EXCEPT !.when_floating = g.when_floating,
                                        !.filter = g.filter], rules, q) = out
                 /\ \A t \in Tables :
                        (q.layout \in DOMAIN t /\ t[q.layout] = rules[q.layout])
                            => check(c, t, q) = out
                 /\ \A i \in DOMAIN out.invoked : out.invoked[i][1] = "layout"
            ELSE /\ \A t \in Tables :
                        DOMAIN t = DOMAIN rules => check(c, t, q) = out
                 /\ \A i \in DOMAIN out.invoked : out.invoked[i][1] = "global"

C6_Witness ==
    /\ ret.op = "check"
    /\ HasCall(ret.self, ret.q.layout)
    /\ HasCall(ret.self, "None")
    /\ ~LastCall(ret.self, "None").when_floating
    /\ LastCall(ret.self, "None").filt = "group_a"
    /\ ret.q.window = "floating"
    /\ ret.q.group = "b"
    /\ Gives(ret.out, TRUE)

----------------------------------------------------------------------------
(* C7 *)

\* C7: when() without a layout replaces the global rule: the global flag and
\* filter are those of the last such call (an omitted filt is the default
\* filter), or True and the default filter if there was none; check returns
\* what it returns when only the last such call is made, and after a last
\* call when() what it returns when none is made.
C7_GlobalLastWriteWins ==
    \A self \in DOMAIN heap :
        LET es == LogOf(self)
            last == Replay(Fresh(self), LastOnly(es, 1, TRUE))
            none == Replay(Fresh(self), SelectSeq(es, LAMBDA e : e.layout # "None"))
        IN  /\ IF HasCall(self, "None")
               THEN /\ heap[self].when_floating = LastCall(self, "None").when_floating
                    /\ heap[self].filter = GlobalFilt(LastCall(self, "None").filt)
               ELSE /\ heap[self].when_floating = TRUE
                    /\ heap[self].filter = "default"
            /\ \A q \in Qtiles : CheckNow(self, q) = check(last.c, last.rules, q)
            /\ ( /\ HasCall(self, "None")
                 /\ LastCall(self, "None").when_floating
                 /\ LastCall(self, "None").filt = "None" ) =>
                    \A q \in Qtiles : CheckNow(self, q) = check(none.c, none.rules, q)

C7_Witness ==
    /\ ret.op = "check"
    /\ Len(CallsFor(ret.self, "None")) = 2
    /\ ~CallsFor(ret.self, "None")[1].when_floating
    /\ CallsFor(ret.self, "None")[2].when_floating
    /\ CallsFor(ret.self, "None")[2].filt = "group_a"
    /\ ret.q.window = "floating"
    /\ ret.q.group = "a"
    /\ Gives(ret.out, TRUE)

----------------------------------------------------------------------------
(* C8 *)

\* C8: when() with a layout is last-write-wins and idempotent: the layouts
\* with a rule are those some call named, the rule of each is {when_floating,
\* filter} of the last call that named it (filter always true if filt was
\* omitted), check returns what it returns when only the last call for each
\* layout is made, and repeating the last call for a layout changes no check
\* result. A when(layout=L) call leaves the global rule and the rule of
\* every other layout as they were.
C8_LayoutStored ==
    \A self \in DOMAIN heap :
        LET rules == RulesOf(heap, dicts, self)
            last == Replay(Fresh(self), LastOnly(LogOf(self), 1, FALSE))
        IN  /\ DOMAIN rules = {l \in RuleLayouts : HasCall(self, l)}
            /\ \A l \in DOMAIN rules :
                    /\ rules[l] = [when_floating |-> LastCall(self, l).when_floating,
                                   filter |-> LayoutFilt(LastCall(self, l).filt)]
                    /\ \A q \in Qtiles :
                          check(heap[self],
                                WhenLayout(rules, l, LastCall(self, l).when_floating,
                                           LastCall(self, l).filt), q)
                            = CheckNow(self, q)
            /\ \A q \in Qtiles : CheckNow(self, q) = check(last.c, last.rules, q)

C8_LayoutFrame ==
    (ret'.op = "when" /\ log'[Len(log')].layout # "None") =>
        LET self == ret'.self
            l == log'[Len(log')].layout
            old == RulesOf(heap, dicts, self)
            new == RulesOf(heap', dicts', self)
        IN  /\ heap' = heap
            /\ DOMAIN new = (DOMAIN old) \cup {l}
            /\ \A k \in DOMAIN old : k # l => new[k] = old[k]

C8_LayoutLastWriteWins == []C8_LayoutStored /\ [][C8_LayoutFrame]_vars

C8_Witness ==
    /\ ret.op = "when"
    /\ \E l \in RuleLayouts :
        /\ Len(CallsFor(ret.self, l)) = 2
        /\ CallsFor(ret.self, l)[1].when_floating
        /\ CallsFor(ret.self, l)[1].filt = "group_a"
        /\ ~CallsFor(ret.self, l)[2].when_floating
        /\ CallsFor(ret.self, l)[2].filt = "None"
        /\ RulesOf(heap, dicts, ret.self)[l] =
                [when_floating |-> FALSE, filter |-> "always_true"]

----------------------------------------------------------------------------
(* C9 *)

\* C9: execute returns a new LazyCall that holds the given call, args and
\* kwargs, with an empty rule table of its own, when_floating True and the
\* default filter, and leaves the LazyCalls built before as they were; no
\* two LazyCalls share a rule table, and a when() call on one changes no
\* check result of another.
C9_ExecuteStep ==
    /\ ret'.op = "execute" =>
        LET new == Len(heap) + 1 IN
        /\ ret'.self = new
        /\ DOMAIN heap' = 1..new
        /\ heap'[new].call = ret'.inv.call
        /\ heap'[new].args = ret'.inv.args
        /\ heap'[new].kwargs = ret'.inv.kwargs
        /\ heap'[new].when_floating = TRUE
        /\ heap'[new].filter = "default"
        /\ heap'[new].layout_rules \in DOMAIN dicts'
        /\ RulesOf(heap', dicts', new) = EmptyDict
        /\ \A o \in DOMAIN heap :
              /\ heap'[o] = heap[o]
              /\ RulesOf(heap', dicts', o) = RulesOf(heap, dicts, o)
    /\ ret'.op = "when" =>
        \A o \in DOMAIN heap : o # ret'.self =>
            /\ heap'[o] = heap[o]
            /\ \A q \in Qtiles : CheckNext(o, q) = CheckNow(o, q)

C9_OwnRules ==
    \A o1, o2 \in DOMAIN heap :
        o1 # o2 => heap[o1].layout_rules # heap[o2].layout_rules

C9_ExecuteFresh == []C9_OwnRules /\ [][C9_ExecuteStep]_vars

C9_Witness ==
    /\ Len(heap) >= 2
    /\ ret.op = "when"
    /\ ret.self = 1
    /\ heap[1].call # heap[2].call
    /\ Len(LogOf(1)) = 2
    /\ LogOf(2) = <<>>
    /\ DOMAIN RulesOf(heap, dicts, 1) = {"columns"}
    /\ ~heap[1].when_floating
    /\ \A q \in Qtiles : Gives(CheckNow(2, q), TRUE)
    /\ \E q \in Qtiles : Gives(CheckNow(1, q), FALSE)

----------------------------------------------------------------------------
(* C10 *)

\* C10: check changes no rule state: a check call leaves the keys of the
\* rule table, every rule and the global flag and filter as they were, also
\* when the current layout has no rule; so every check call returns
\* afterwards what it returned before, the call just made included.
C10_CheckStep ==
    ret'.op = "check" =>
        /\ heap' = heap
        /\ dicts' = dicts
        /\ log' = log
        /\ ret'.out = CheckNext(ret'.self, ret'.q)
        /\ \A q \in Qtiles : CheckNext(ret'.self, q) = CheckNow(ret'.self, q)

C10_CheckReadsOnly == [][C10_CheckStep]_vars

C10_Witness ==
    /\ ret.op = "check"
    /\ DOMAIN RulesOf(heap, dicts, ret.self) = {"columns"}
    /\ ret.q.layout = "max"
    /\ heap[ret.self].filter = "default"
    /\ Gives(ret.out, FALSE)

====
